---- MODULE Spec2Model ----
(***************************************************************************)
(* Startup of the user-management-api process: the environment-aware       *)
(* configuration flow of docs/guides/01-configuration-management.md        *)
(* (environment detection, .env loading, LoadConfig, ValidateConfig) and    *)
(* the Fiber server bootstrap of cmd/main.go and internal/handler.          *)
(*                                                                         *)
(* Strings are TLA+ strings.  Where the code looks inside a string         *)
(* (upper-casing and replacing in an environment key, strings.Contains,    *)
(* parsing an integer) the string is spelled out character by character    *)
(* in Spell and the operation works on the characters.                     *)
(***************************************************************************)
EXTENDS Integers, Sequences, FiniteSets, TLC

(***************************************************************************)
(* Strings and characters                                                  *)
(***************************************************************************)

\* What a variable of the model holds before the program has given it a
\* value, and what marks a name that an environment or a file leaves out.
None == "<none>"

Spell ==
    "server.host" :> <<"s","e","r","v","e","r",".","h","o","s","t">> @@
    "server.port" :> <<"s","e","r","v","e","r",".","p","o","r","t">> @@
    "server.read_timeout" :> <<"s","e","r","v","e","r",".","r","e","a","d","_","t","i","m","e","o","u","t">> @@
    "server.write_timeout" :> <<"s","e","r","v","e","r",".","w","r","i","t","e","_","t","i","m","e","o","u","t">> @@
    "server.idle_timeout" :> <<"s","e","r","v","e","r",".","i","d","l","e","_","t","i","m","e","o","u","t">> @@
    "database.host" :> <<"d","a","t","a","b","a","s","e",".","h","o","s","t">> @@
    "database.port" :> <<"d","a","t","a","b","a","s","e",".","p","o","r","t">> @@
    "database.user" :> <<"d","a","t","a","b","a","s","e",".","u","s","e","r">> @@
    "database.password" :> <<"d","a","t","a","b","a","s","e",".","p","a","s","s","w","o","r","d">> @@
    "database.dbname" :> <<"d","a","t","a","b","a","s","e",".","d","b","n","a","m","e">> @@
    "database.sslmode" :> <<"d","a","t","a","b","a","s","e",".","s","s","l","m","o","d","e">> @@
    "jwt.secret" :> <<"j","w","t",".","s","e","c","r","e","t">> @@
    "jwt.expiration_time" :> <<"j","w","t",".","e","x","p","i","r","a","t","i","o","n","_","t","i","m","e">> @@
    "logger.level" :> <<"l","o","g","g","e","r",".","l","e","v","e","l">> @@
    "logger.format" :> <<"l","o","g","g","e","r",".","f","o","r","m","a","t">> @@
    "APP_ENV" :> <<"A","P","P","_","E","N","V">> @@
    "CONFIG_PATH" :> <<"C","O","N","F","I","G","_","P","A","T","H">> @@
    "SERVER_HOST" :> <<"S","E","R","V","E","R","_","H","O","S","T">> @@
    "SERVER_PORT" :> <<"S","E","R","V","E","R","_","P","O","R","T">> @@
    "SERVER_READ_TIMEOUT" :> <<"S","E","R","V","E","R","_","R","E","A","D","_","T","I","M","E","O","U","T">> @@
    "SERVER_WRITE_TIMEOUT" :> <<"S","E","R","V","E","R","_","W","R","I","T","E","_","T","I","M","E","O","U","T">> @@
    "SERVER_IDLE_TIMEOUT" :> <<"S","E","R","V","E","R","_","I","D","L","E","_","T","I","M","E","O","U","T">> @@
    "DATABASE_HOST" :> <<"D","A","T","A","B","A","S","E","_","H","O","S","T">> @@
    "DATABASE_PORT" :> <<"D","A","T","A","B","A","S","E","_","P","O","R","T">> @@
    "DATABASE_USER" :> <<"D","A","T","A","B","A","S","E","_","U","S","E","R">> @@
    "DATABASE_PASSWORD" :> <<"D","A","T","A","B","A","S","E","_","P","A","S","S","W","O","R","D">> @@
    "DATABASE_NAME" :> <<"D","A","T","A","B","A","S","E","_","N","A","M","E">> @@
    "DATABASE_DBNAME" :> <<"D","A","T","A","B","A","S","E","_","D","B","N","A","M","E">> @@
    "DATABASE_SSLMODE" :> <<"D","A","T","A","B","A","S","E","_","S","S","L","M","O","D","E">> @@
    "JWT_SECRET" :> <<"J","W","T","_","S","E","C","R","E","T">> @@
    "JWT_EXPIRATION_TIME" :> <<"J","W","T","_","E","X","P","I","R","A","T","I","O","N","_","T","I","M","E">> @@
    "LOGGER_LEVEL" :> <<"L","O","G","G","E","R","_","L","E","V","E","L">> @@
    "LOGGER_FORMAT" :> <<"L","O","G","G","E","R","_","F","O","R","M","A","T">> @@
    "" :> <<>> @@
    "localhost" :> <<"l","o","c","a","l","h","o","s","t">> @@
    "prod-db.example.com" :> <<"p","r","o","d","-","d","b",".","e","x","a","m","p","l","e",".","c","o","m">> @@
    "db.localhost" :> <<"d","b",".","l","o","c","a","l","h","o","s","t">> @@
    "5433" :> <<"5","4","3","3">> @@
    "abc" :> <<"a","b","c">> @@
    "8080" :> <<"8","0","8","0">> @@
    "3000" :> <<"3","0","0","0">>

UpperOf ==
    "a" :> "A" @@ "b" :> "B" @@ "c" :> "C" @@ "d" :> "D" @@ "e" :> "E" @@
    "f" :> "F" @@ "g" :> "G" @@ "h" :> "H" @@ "i" :> "I" @@ "j" :> "J" @@
    "k" :> "K" @@ "l" :> "L" @@ "m" :> "M" @@ "n" :> "N" @@ "o" :> "O" @@
    "p" :> "P" @@ "q" :> "Q" @@ "r" :> "R" @@ "s" :> "S" @@ "t" :> "T" @@
    "u" :> "U" @@ "v" :> "V" @@ "w" :> "W" @@ "x" :> "X" @@ "y" :> "Y" @@
    "z" :> "Z"

DigitOf ==
    "0" :> 0 @@ "1" :> 1 @@ "2" :> 2 @@ "3" :> 3 @@ "4" :> 4 @@
    "5" :> 5 @@ "6" :> 6 @@ "7" :> 7 @@ "8" :> 8 @@ "9" :> 9

\* strings.ToUpper, on the characters
ToUpper(cs) ==
    [i \in 1..Len(cs) |-> IF cs[i] \in DOMAIN UpperOf THEN UpperOf[cs[i]] ELSE cs[i]]

\* strings.NewReplacer(old, new).Replace for one-character old and new
Replace(cs, old, new) ==
    [i \in 1..Len(cs) |-> IF cs[i] = old THEN new ELSE cs[i]]

\* strings.Contains(s, sub), on the characters
Contains(cs, sub) ==
    \E i \in 0..(Len(cs) - Len(sub)) :
        \A j \in 1..Len(sub) : cs[i + j] = sub[j]

RECURSIVE DigitsValue(_)
DigitsValue(cs) ==
    IF Len(cs) = 0 THEN 0
    ELSE 10 * DigitsValue(SubSeq(cs, 1, Len(cs) - 1)) + DigitOf[cs[Len(cs)]]

\* mapstructure's weak decoding of a string into an int field: the empty
\* string is 0, a run of decimal digits is its value, anything else is an
\* error.
ParseInt(s) ==
    LET cs == Spell[s] IN
    IF \A i \in 1..Len(cs) : cs[i] \in DOMAIN DigitOf
    THEN [ok |-> TRUE, val |-> DigitsValue(cs)]
    ELSE [ok |-> FALSE, val |-> 0]

(***************************************************************************)
(* internal/config: the Config struct, the defaults, LoadConfig            *)
(***************************************************************************)

\* The mapstructure keys of Config, section.field
ConfigKeys ==
    { "server.host", "server.port", "server.read_timeout",
      "server.write_timeout", "server.idle_timeout",
      "database.host", "database.port", "database.user",
      "database.password", "database.dbname", "database.sslmode",
      "jwt.secret", "jwt.expiration_time",
      "logger.level", "logger.format" }

\* The fields declared int; every other field is a string
IntKeys ==
    { "server.read_timeout", "server.write_timeout", "server.idle_timeout",
      "database.port", "jwt.expiration_time" }

\* config := &Config{}: Go's zero value of every field
ZeroConfig ==
    [k \in ConfigKeys |-> IF k \in IntKeys THEN 0 ELSE ""]

Placeholder == "your-secret-key-change-in-production"

\* The registry of defaults after setDefaults()
setDefaults ==
    "server.host" :> "localhost" @@
    "server.port" :> "3000" @@
    "server.read_timeout" :> 30 @@
    "server.write_timeout" :> 30 @@
    "server.idle_timeout" :> 60 @@
    "database.host" :> "localhost" @@
    "database.port" :> 5432 @@
    "database.user" :> "postgres" @@
    "database.password" :> "" @@
    "database.dbname" :> "user_management" @@
    "database.sslmode" :> "disable" @@
    "jwt.secret" :> Placeholder @@
    "jwt.expiration_time" :> 24 @@
    "logger.level" :> "info" @@
    "logger.format" :> "json"

\* An environment is a function from the names that are set in it to their
\* values; a variable set to the empty string is in its domain.

\* os.Getenv: the value, or "" when the variable is not in the environment
Getenv(e, name) ==
    IF name \in DOMAIN e THEN e[name] ELSE ""

\* os.LookupEnv by the characters of the name
LookupEnv(e, cs) ==
    IF \E n \in DOMAIN e : Spell[n] = cs
    THEN [ok |-> TRUE, val |-> e[CHOOSE n \in DOMAIN e : Spell[n] = cs]]
    ELSE [ok |-> FALSE, val |-> ""]

\* The environment key without the replacer: upper-cased, the dots kept
EnvKey_noReplacer(k) ==
    ToUpper(Spell[k])

\* The environment key viper derives for a config key under AutomaticEnv
\* with SetEnvKeyReplacer(strings.NewReplacer(".", "_")): upper-cased, then
\* every dot replaced by an underscore.
EnvKey(k) ==
    Replace(ToUpper(Spell[k]), ".", "_")

EnvKeyOf ==
    [k \in ConfigKeys |-> EnvKey(k)]

\* getEnv with AllowEmptyEnv on: a variable set to the empty string counts
getEnv_allowEmpty(e, k) ==
    LookupEnv(e, EnvKeyOf[k])

\* viper's getEnv with AllowEmptyEnv off (the default): a variable set to
\* the empty string counts as not set.
getEnv(e, k) ==
    LET r == LookupEnv(e, EnvKeyOf[k]) IN
    [ok |-> r.ok /\ r.val # "", val |-> r.val]

\* find with the config file consulted before the environment
find_fileFirst(e, v, k) ==
    IF k \in DOMAIN v.config
    THEN [src |-> "file", found |-> TRUE, raw |-> v.config[k]]
    ELSE IF v.automaticEnv /\ getEnv(e, k).ok
    THEN [src |-> "env", found |-> TRUE, raw |-> getEnv(e, k).val]
    ELSE IF k \in DOMAIN v.defaults
    THEN [src |-> "default", found |-> TRUE, raw |-> v.defaults[k]]
    ELSE [src |-> "none", found |-> FALSE, raw |-> ""]

\* find with the registry of defaults never consulted
find_noDefaults(e, v, k) ==
    IF v.automaticEnv /\ getEnv(e, k).ok
    THEN [src |-> "env", found |-> TRUE, raw |-> getEnv(e, k).val]
    ELSE IF k \in DOMAIN v.config
    THEN [src |-> "file", found |-> TRUE, raw |-> v.config[k]]
    ELSE [src |-> "none", found |-> FALSE, raw |-> ""]

\* viper's lookup of one key: environment, then config file, then default.
\* src tells where the value came from, so that its Go type is known.
find(e, v, k) ==
    IF v.automaticEnv /\ getEnv(e, k).ok
    THEN [src |-> "env", found |-> TRUE, raw |-> getEnv(e, k).val]
    ELSE IF k \in DOMAIN v.config
    THEN [src |-> "file", found |-> TRUE, raw |-> v.config[k]]
    ELSE IF k \in DOMAIN v.defaults
    THEN [src |-> "default", found |-> TRUE, raw |-> v.defaults[k]]
    ELSE [src |-> "none", found |-> FALSE, raw |-> ""]

\* Decode that takes an int field's value that is no number for zero
Decode_lenient(k, f) ==
    IF ~f.found THEN [ok |-> TRUE, val |-> ZeroConfig[k]]
    ELSE IF k \in IntKeys /\ f.src \in {"env", "file"}
    THEN [ok |-> TRUE, val |-> ParseInt(f.raw).val]
    ELSE [ok |-> TRUE, val |-> f.raw]

\* Decoding one found value into its field.  A value from the environment
\* is a string, a value from the file is the text of its scalar: for an int
\* field either is a number or the decoding fails.  The defaults already
\* have the type of their field.
Decode(k, f) ==
    IF ~f.found THEN [ok |-> TRUE, val |-> ZeroConfig[k]]
    ELSE IF k \in IntKeys /\ f.src \in {"env", "file"} THEN ParseInt(f.raw)
    ELSE [ok |-> TRUE, val |-> f.raw]

\* viper.Unmarshal(config)
Unmarshal(e, v) ==
    LET d == [k \in ConfigKeys |-> Decode(k, find(e, v, k))] IN
    IF \A k \in ConfigKeys : d[k].ok
    THEN [err |-> "nil", cfg |-> [k \in ConfigKeys |-> d[k].val]]
    ELSE [err |-> "unmarshal", cfg |-> ZeroConfig]

\* viper.SetConfigFile(in): the empty string names no file and leaves the
\* registry as it is
SetConfigFile(v, in) ==
    IF in # "" THEN [v EXCEPT !.configFile = in] ELSE v

\* ReadInConfig that takes a malformed file for an empty one
ReadInConfig_lenient(v, fs, contents) ==
    CASE v.configFile = "" ->
            [err |-> "ConfigFileNotFoundError", viper |-> v]
      [] fs[v.configFile] = "ok" ->
            [err |-> "nil", viper |-> [v EXCEPT !.config = contents]]
      [] fs[v.configFile] = "malformed" ->
            [err |-> "nil", viper |-> v]
      [] OTHER ->
            [err |-> "PathError", viper |-> v]

\* ReadInConfig that reads a well-formed file and keeps nothing of it
ReadInConfig_keepsNothing(v, fs, contents) ==
    CASE v.configFile = "" -> [err |-> "ConfigFileNotFoundError", viper |-> v]
      [] fs[v.configFile] = "ok" -> [err |-> "nil", viper |-> v]
      [] fs[v.configFile] = "malformed" -> [err |-> "ConfigParseError", viper |-> v]
      [] OTHER -> [err |-> "PathError", viper |-> v]

\* viper.ReadInConfig().  With a file named by SetConfigFile the library
\* opens that file: a missing file is the file system's not-exist error, a
\* malformed file is a parse error, and the keys of a well-formed file
\* replace the ones read before.  With no file named the library searches
\* its config paths, of which LoadConfig adds none, and the result is
\* ConfigFileNotFoundError.
ReadInConfig(v, fs, contents) ==
    CASE v.configFile = "" ->
            [err |-> "ConfigFileNotFoundError", viper |-> v]
      [] fs[v.configFile] = "ok" ->
            [err |-> "nil", viper |-> [v EXCEPT !.config = contents]]
      [] fs[v.configFile] = "malformed" ->
            [err |-> "ConfigParseError", viper |-> v]
      [] OTHER ->
            [err |-> "PathError", viper |-> v]

\* LoadConfig(configPath): the result, the error and viper's registry after
\* the call.
LoadConfig(configPath, e, fs, contents, v) ==
    LET v0 == SetConfigFile(v, configPath)
        v1 == [v0 EXCEPT !.automaticEnv = TRUE,
                         !.defaults = setDefaults @@ v.defaults,
                         !.replacer = TRUE]
        rd == ReadInConfig(v1, fs, contents)
        um == Unmarshal(e, rd.viper)
    IN  IF rd.err # "nil" /\ rd.err # "ConfigFileNotFoundError"
        THEN [err |-> "error reading config file", cfg |-> ZeroConfig, viper |-> rd.viper]
        ELSE IF um.err # "nil"
        THEN [err |-> "error unmarshaling config", cfg |-> ZeroConfig, viper |-> rd.viper]
        ELSE [err |-> "nil", cfg |-> um.cfg, viper |-> rd.viper]

(***************************************************************************)
(* internal/config: validation                                             *)
(***************************************************************************)

\* validateProductionConfig without the check of the secret
validateProductionConfig_noSecret(c) ==
    IF Contains(Spell[c["database.host"]], Spell["localhost"])
       /\ c["database.host"] # "localhost"
    THEN "production database should not use localhost"
    ELSE IF c["logger.level"] = "debug"
    THEN "debug logging not recommended in production"
    ELSE "nil"

\* validateProductionConfig without the check of the log level
validateProductionConfig_noDebug(c) ==
    IF c["jwt.secret"] = Placeholder
    THEN "JWT_SECRET must be changed from default in production"
    ELSE IF Contains(Spell[c["database.host"]], Spell["localhost"])
            /\ c["database.host"] # "localhost"
    THEN "production database should not use localhost"
    ELSE "nil"

\* validateProductionConfig with the database host checked before the secret
validateProductionConfig_hostFirst(c) ==
    IF Contains(Spell[c["database.host"]], Spell["localhost"])
       /\ c["database.host"] # "localhost"
    THEN "production database should not use localhost"
    ELSE IF c["jwt.secret"] = Placeholder
    THEN "JWT_SECRET must be changed from default in production"
    ELSE IF c["logger.level"] = "debug"
    THEN "debug logging not recommended in production"
    ELSE "nil"

validateProductionConfig(c) ==
    IF c["jwt.secret"] = Placeholder
    THEN "JWT_SECRET must be changed from default in production"
    ELSE IF Contains(Spell[c["database.host"]], Spell["localhost"])
            /\ c["database.host"] # "localhost"
    THEN "production database should not use localhost"
    ELSE IF c["logger.level"] = "debug"
    THEN "debug logging not recommended in production"
    ELSE "nil"

\* validateNonProductionConfig that refuses the placeholder secret
validateNonProductionConfig_strict(c) ==
    IF c["jwt.secret"] = Placeholder
    THEN "JWT_SECRET must be changed from default in production"
    ELSE "nil"

validateNonProductionConfig(c) ==
    "nil"

\* ValidateConfig with every name but "production" validated leniently
ValidateConfig_lenientDefault(c, envName) ==
    CASE envName = "production" -> validateProductionConfig(c)
      [] OTHER -> validateNonProductionConfig(c)

ValidateConfig(c, envName) ==
    CASE envName = "production" -> validateProductionConfig(c)
      [] envName \in {"development", "staging"} -> validateNonProductionConfig(c)
      [] OTHER -> "unknown environment"

(***************************************************************************)
(* The process and what it starts from                                     *)
(***************************************************************************)

VARIABLES
    osEnv,            \* the environment the operating system gave the process
    env,              \* the process environment now (godotenv.Load adds to it)
    dotenv,           \* the .env file of the working directory
    fs,               \* config file path |-> "missing", "malformed" or "ok"
    contents,         \* the keys and values of a well-formed config file
    viper,            \* viper's global registry
    cfg,              \* main's cfg
    envName,          \* main's env
    pc,               \* where main is
    exit,             \* "running", or how the process ended
    exitMsg,          \* the message it ended with
    requiredChecked,  \* setupProductionEnvironment has checked its variables
    dotenvLoaded,     \* godotenv.Load has read the .env file
    loaded,           \* LoadConfig has returned a configuration
    validatedAs,      \* the environment name ValidateConfig was called with
    validErr,         \* what ValidateConfig returned
    app,              \* the Fiber app: its settings and its handler stack
    listening,        \* the listener is open
    addr,             \* the address given to app.Listen
    served,           \* requests answered so far
    lastResp          \* the answer to the last request

vars ==
    << osEnv, env, dotenv, fs, contents, viper, cfg, envName, pc, exit,
       exitMsg, requiredChecked, dotenvLoaded, loaded, validatedAs, validErr,
       app, listening, addr, served, lastResp >>

\* How many requests a run of the model serves
MaxRequests == 2

EmptyMap == [k \in {} |-> ""]

\* The environment or file that sets what r sets: r gives every name a
\* value or None
Setting(r) ==
    [n \in {m \in DOMAIN r : r[m] # None} |-> r[n]]

\* The environments the operating system may hand to the process
OsEnvs ==
    { Setting(r) :
        r \in [ APP_ENV : {None, "production", "development", "staging", "qa"},
                JWT_SECRET : {None, "", Placeholder, "prod-secret"},
                DATABASE_HOST : {None, "localhost", "prod-db.example.com", "db.localhost"},
                DATABASE_PASSWORD : {None, "pw"},
                DATABASE_PORT : {None, "5433", "abc"},
                SERVER_PORT : {None, "8080"} ] }

\* The .env files: none, or one that sets some of APP_ENV and JWT_SECRET
DotenvFiles ==
    { [exists |-> FALSE, vars |-> EmptyMap] } \cup
    { [exists |-> TRUE, vars |-> Setting(r)] :
        r \in [ APP_ENV : {None, "development", "production"},
                JWT_SECRET : {None, "dev-secret"} ] }

\* The paths a config file may be at
Locations == << "config.yaml", "config.yml", "configs/config.yaml", "configs/config.yml" >>

Paths == { Locations[i] : i \in 1..Len(Locations) } \cup { "custom.yaml" }

\* What a well-formed config file may say
FileValue ==
    "jwt.secret" :> "config-secret" @@
    "logger.level" :> "debug" @@
    "database.port" :> "abc"

FileContents ==
    { [k \in D |-> FileValue[k]] : D \in SUBSET (DOMAIN FileValue) }

NoApp ==
    [created |-> FALSE, readTimeout |-> 0, writeTimeout |-> 0, idleTimeout |-> 0,
     stack |-> << >>]

NoResp == [method |-> "", path |-> "", status |-> 0, body |-> EmptyMap, chain |-> << >>]

\* viper's global registry when the process starts
NewViper ==
    [configFile |-> "", automaticEnv |-> FALSE, replacer |-> FALSE,
     defaults |-> EmptyMap, config |-> EmptyMap]

InitProcess ==
    /\ env = osEnv
    /\ viper = NewViper
    /\ cfg = ZeroConfig
    /\ envName = ""
    /\ exit = "running"
    /\ exitMsg = ""
    /\ requiredChecked = FALSE
    /\ dotenvLoaded = FALSE
    /\ loaded = FALSE
    /\ validatedAs = None
    /\ validErr = None
    /\ app = NoApp
    /\ listening = FALSE
    /\ addr = [host |-> "", port |-> ""]
    /\ served = 0
    /\ lastResp = NoResp

\* The process of the configuration guide, about to run main
Init ==
    /\ osEnv \in OsEnvs
    /\ dotenv \in DotenvFiles
    /\ \E st \in {"missing", "malformed", "ok"} :
         /\ fs = [p \in Paths |-> IF p = "config.yaml" THEN st ELSE "missing"]
         /\ contents \in IF st = "ok" THEN FileContents ELSE {EmptyMap}
    /\ pc = "start"
    /\ InitProcess

(***************************************************************************)
(* cmd/main.go as the guide rewrites it                                    *)
(***************************************************************************)

Die(how, msg) ==
    /\ exit' = how
    /\ exitMsg' = msg
    /\ pc' = "exited"

\* godotenv.Overload(): every variable of the file is set, over the
\* environment's own
godotenvLoad_overload(e, file) ==
    [n \in DOMAIN e \cup DOMAIN file |-> IF n \in DOMAIN file THEN file[n] ELSE e[n]]

\* godotenv.Load(): every variable of the file that the environment does
\* not have yet is set; a variable already there is left as it is.
godotenvLoad(e, file) ==
    [n \in DOMAIN e \cup DOMAIN file |-> IF n \in DOMAIN e THEN e[n] ELSE file[n]]

\* requiredEnvVars without the secret
requiredEnvVars_noSecret == << "DATABASE_HOST", "DATABASE_PASSWORD" >>

requiredEnvVars == << "DATABASE_HOST", "DATABASE_PASSWORD", "JWT_SECRET" >>

\* getConfigPath that takes CONFIG_PATH only when the file is there
getConfigPath_checksExists(e, f) ==
    IF Getenv(e, "CONFIG_PATH") # "" /\ f[Getenv(e, "CONFIG_PATH")] # "missing"
    THEN Getenv(e, "CONFIG_PATH")
    ELSE IF \E i \in 1..Len(Locations) : f[Locations[i]] # "missing"
    THEN Locations[CHOOSE i \in 1..Len(Locations) :
                     /\ f[Locations[i]] # "missing"
                     /\ \A j \in 1..(i - 1) : f[Locations[j]] = "missing"]
    ELSE "config.yaml"

\* getConfigPath()
getConfigPath(e, f) ==
    IF Getenv(e, "CONFIG_PATH") # ""
    THEN Getenv(e, "CONFIG_PATH")
    ELSE IF \E i \in 1..Len(Locations) : f[Locations[i]] # "missing"
    THEN Locations[CHOOSE i \in 1..Len(Locations) :
                     /\ f[Locations[i]] # "missing"
                     /\ \A j \in 1..(i - 1) : f[Locations[j]] = "missing"]
    ELSE "config.yaml"

\* main, step 1, production branch: setupProductionEnvironment()
SetupProduction ==
    /\ pc = "start"
    /\ Getenv(env, "APP_ENV") = "production"
    /\ envName' = Getenv(env, "APP_ENV")
    /\ requiredChecked' = TRUE
    /\ IF \E i \in 1..Len(requiredEnvVars) : Getenv(env, requiredEnvVars[i]) = ""
       THEN Die("panic", "Production requires variable to be set as OS environment variable")
       ELSE /\ pc' = "load"
            /\ UNCHANGED << exit, exitMsg >>
    /\ UNCHANGED << osEnv, env, dotenv, fs, contents, viper, cfg, dotenvLoaded,
                    loaded, validatedAs, validErr, app, listening, addr, served,
                    lastResp >>

\* setupNonProductionEnvironment that falls back to "development" when the
\* .env file leaves APP_ENV unset
SetupNonProduction_defaultEnv ==
    /\ pc = "start"
    /\ Getenv(env, "APP_ENV") # "production"
    /\ IF ~dotenv.exists
       THEN /\ Die("panic", "Non-production environment requires .env file")
            /\ envName' = Getenv(env, "APP_ENV")
            /\ UNCHANGED << env, dotenvLoaded >>
       ELSE /\ env' = godotenvLoad(env, dotenv.vars)
            /\ dotenvLoaded' = TRUE
            /\ envName' = IF Getenv(env', "APP_ENV") = "" THEN "development"
                          ELSE Getenv(env', "APP_ENV")
            /\ pc' = "load"
            /\ UNCHANGED << exit, exitMsg >>
    /\ UNCHANGED << osEnv, dotenv, fs, contents, viper, cfg, requiredChecked,
                    loaded, validatedAs, validErr, app, listening, addr, served,
                    lastResp >>

\* setupNonProductionEnvironment that goes on without a .env file
SetupNonProduction_optionalDotenv ==
    /\ pc = "start"
    /\ Getenv(env, "APP_ENV") # "production"
    /\ env' = IF dotenv.exists THEN godotenvLoad(env, dotenv.vars) ELSE env
    /\ dotenvLoaded' = dotenv.exists
    /\ IF Getenv(env', "APP_ENV") = ""
       THEN /\ Die("panic", "APP_ENV must be set in .env file")
            /\ envName' = Getenv(env, "APP_ENV")
       ELSE /\ envName' = Getenv(env', "APP_ENV")
            /\ pc' = "load"
            /\ UNCHANGED << exit, exitMsg >>
    /\ UNCHANGED << osEnv, dotenv, fs, contents, viper, cfg, requiredChecked,
                    loaded, validatedAs, validErr, app, listening, addr, served,
                    lastResp >>

\* main, step 1, the other branch: setupNonProductionEnvironment(), then
\* env = os.Getenv("APP_ENV") again
SetupNonProduction ==
    /\ pc = "start"
    /\ Getenv(env, "APP_ENV") # "production"
    /\ IF ~dotenv.exists
       THEN /\ Die("panic", "Non-production environment requires .env file")
            /\ envName' = Getenv(env, "APP_ENV")
            /\ UNCHANGED << env, dotenvLoaded >>
       ELSE /\ env' = godotenvLoad(env, dotenv.vars)
            /\ dotenvLoaded' = TRUE
            /\ IF Getenv(env', "APP_ENV") = ""
               THEN /\ Die("panic", "APP_ENV must be set in .env file")
                    /\ envName' = Getenv(env, "APP_ENV")
               ELSE /\ envName' = Getenv(env', "APP_ENV")
                    /\ pc' = "load"
                    /\ UNCHANGED << exit, exitMsg >>
    /\ UNCHANGED << osEnv, dotenv, fs, contents, viper, cfg, requiredChecked,
                    loaded, validatedAs, validErr, app, listening, addr, served,
                    lastResp >>

\* main, step 2: getConfigPath and config.LoadConfig
MainLoadConfig ==
    /\ pc = "load"
    /\ LET r == LoadConfig(getConfigPath(env, fs), env, fs, contents, viper) IN
         /\ viper' = r.viper
         /\ IF r.err # "nil"
            THEN /\ Die("fatal", r.err)
                 /\ UNCHANGED << cfg, loaded >>
            ELSE /\ cfg' = r.cfg
                 /\ loaded' = TRUE
                 /\ pc' = "validate"
                 /\ UNCHANGED << exit, exitMsg >>
    /\ UNCHANGED << osEnv, env, dotenv, fs, contents, envName, requiredChecked,
                    dotenvLoaded, validatedAs, validErr, app, listening, addr, served,
                    lastResp >>

\* main, step 3: config.ValidateConfig(cfg, env)
MainValidate ==
    /\ pc = "validate"
    /\ validatedAs' = envName
    /\ validErr' = ValidateConfig(cfg, envName)
    /\ IF validErr' # "nil"
       THEN Die("fatal", validErr')
       ELSE /\ pc' = "new"
            /\ UNCHANGED << exit, exitMsg >>
    /\ UNCHANGED << osEnv, env, dotenv, fs, contents, viper, cfg, envName,
                    requiredChecked, dotenvLoaded, loaded, app, listening, addr,
                    served, lastResp >>

\* main, step 4: fiber.New with the timeouts of the configuration
NewApp ==
    /\ pc = "new"
    /\ app' = [created |-> TRUE,
               readTimeout |-> cfg["server.read_timeout"],
               writeTimeout |-> cfg["server.write_timeout"],
               idleTimeout |-> cfg["server.idle_timeout"],
               stack |-> << >>]
    /\ pc' = "middleware"
    /\ UNCHANGED << osEnv, env, dotenv, fs, contents, viper, cfg, envName, exit,
                    exitMsg, requiredChecked, dotenvLoaded, loaded, validatedAs,
                    validErr, listening, addr, served, lastResp >>

(***************************************************************************)
(* internal/handler                                                        *)
(***************************************************************************)

\* SetupMiddleware that registers the logger first, then recovery
SetupMiddleware_loggerFirst ==
    /\ pc = "middleware"
    /\ app' = [app EXCEPT !.stack = @ \o
                 << [kind |-> "use", method |-> "*", path |-> "/", name |-> "logger"],
                    [kind |-> "use", method |-> "*", path |-> "/", name |-> "recover"] >>]
    /\ pc' = "routes"
    /\ UNCHANGED << osEnv, env, dotenv, fs, contents, viper, cfg, envName, exit,
                    exitMsg, requiredChecked, dotenvLoaded, loaded, validatedAs,
                    validErr, listening, addr, served, lastResp >>

\* SetupMiddleware(app): recovery first, then the logger
SetupMiddleware ==
    /\ pc = "middleware"
    /\ app' = [app EXCEPT !.stack = @ \o
                 << [kind |-> "use", method |-> "*", path |-> "/", name |-> "recover"],
                    [kind |-> "use", method |-> "*", path |-> "/", name |-> "logger"] >>]
    /\ pc' = "routes"
    /\ UNCHANGED << osEnv, env, dotenv, fs, contents, viper, cfg, envName, exit,
                    exitMsg, requiredChecked, dotenvLoaded, loaded, validatedAs,
                    validErr, listening, addr, served, lastResp >>

\* SetupRoutes that registers the health check on the app, not on the group
SetupRoutes_noGroup ==
    /\ pc = "routes"
    /\ app' = [app EXCEPT !.stack = @ \o
                 << [kind |-> "route", method |-> "GET", path |-> "/", name |-> "Welcome"],
                    [kind |-> "route", method |-> "GET", path |-> "/health",
                     name |-> "HealthCheck"] >>]
    /\ pc' = "listen"
    /\ UNCHANGED << osEnv, env, dotenv, fs, contents, viper, cfg, envName, exit,
                    exitMsg, requiredChecked, dotenvLoaded, loaded, validatedAs,
                    validErr, listening, addr, served, lastResp >>

\* SetupRoutes(app): GET / and, in the group /api/v1, GET /health
SetupRoutes ==
    /\ pc = "routes"
    /\ app' = [app EXCEPT !.stack = @ \o
                 << [kind |-> "route", method |-> "GET", path |-> "/", name |-> "Welcome"],
                    [kind |-> "route", method |-> "GET", path |-> "/api/v1/health",
                     name |-> "HealthCheck"] >>]
    /\ pc' = "listen"
    /\ UNCHANGED << osEnv, env, dotenv, fs, contents, viper, cfg, envName, exit,
                    exitMsg, requiredChecked, dotenvLoaded, loaded, validatedAs,
                    validErr, listening, addr, served, lastResp >>

\* The JSON bodies of the handlers, and Fiber's answer when no route matches
Welcome ==
    "message" :> "Welcome to User Management API" @@ "version" :> "1.0.0"

HealthCheck ==
    "status" :> "healthy"

NotFound ==
    "error" :> "Cannot GET"

\* The paths requested of the server
RequestPaths == { "/", "/api/v1/health", "/api/v1/users" }

\* One request through the handler stack, in the order of registration:
\* every middleware registered before the matching route runs, then the
\* route's handler answers.  The answer is kept with the request it is to.
Respond(stack, method, path) ==
    LET hit(i) == /\ stack[i].kind = "route"
                  /\ stack[i].method = method
                  /\ stack[i].path = path
        last == IF \E i \in 1..Len(stack) : hit(i)
                THEN CHOOSE i \in 1..Len(stack) :
                        hit(i) /\ \A j \in 1..(i - 1) : ~hit(j)
                ELSE Len(stack)
        ran == SelectSeq(SubSeq(stack, 1, last),
                         LAMBDA h : h.kind = "use" \/ (h.method = method /\ h.path = path))
        names == [i \in 1..Len(ran) |-> ran[i].name]
    IN  IF \E i \in 1..Len(stack) : hit(i)
        THEN [method |-> method, path |-> path, status |-> 200,
              body |-> IF stack[last].name = "Welcome" THEN Welcome ELSE HealthCheck,
              chain |-> names]
        ELSE [method |-> method, path |-> path, status |-> 404, body |-> NotFound,
              chain |-> names]

\* app.Listen(address): the listener opens, or the call fails and main
\* ends in log.Fatal
Listen(address) ==
    /\ addr' = address
    /\ \E opens \in BOOLEAN :
         IF opens
         THEN /\ listening' = TRUE
              /\ pc' = "serving"
              /\ UNCHANGED << exit, exitMsg >>
         ELSE /\ Die("fatal", "Server failed to start")
              /\ UNCHANGED listening
    /\ UNCHANGED << osEnv, env, dotenv, fs, contents, viper, cfg, envName,
                    requiredChecked, dotenvLoaded, loaded, validatedAs, validErr,
                    app, served, lastResp >>

\* main, step 5: the address is the configuration's host and port
MainListen ==
    /\ pc = "listen"
    /\ Listen([host |-> cfg["server.host"], port |-> cfg["server.port"]])

\* HandleRequest whose handler turns debug logging on in the configuration
HandleRequest_writes ==
    /\ pc = "serving"
    /\ listening
    /\ served < MaxRequests
    /\ \E path \in RequestPaths : lastResp' = Respond(app.stack, "GET", path)
    /\ served' = served + 1
    /\ cfg' = [cfg EXCEPT !["logger.level"] = "debug"]
    /\ UNCHANGED << osEnv, env, dotenv, fs, contents, viper, envName, pc,
                    exit, exitMsg, requiredChecked, dotenvLoaded, loaded,
                    validatedAs, validErr, app, listening, addr >>

\* The server answers one GET request
HandleRequest ==
    /\ pc = "serving"
    /\ listening
    /\ served < MaxRequests
    /\ \E path \in RequestPaths : lastResp' = Respond(app.stack, "GET", path)
    /\ served' = served + 1
    /\ UNCHANGED << osEnv, env, dotenv, fs, contents, viper, cfg, envName, pc,
                    exit, exitMsg, requiredChecked, dotenvLoaded, loaded,
                    validatedAs, validErr, app, listening, addr >>

\* The answer Fiber's error handler gives for the error the recovery
\* middleware makes of a panic
InternalServerError ==
    "error" :> "panic"

\* The server gets a GET request to a route whose handler panics.  The recovery
\* middleware, when it ran before the handler, recovers: the request is
\* answered 500 and the server goes on.  A panic nothing recovers ends the
\* process.
HandleRequestPanic ==
    /\ pc = "serving"
    /\ listening
    /\ served < MaxRequests
    /\ \E path \in RequestPaths :
         LET r == Respond(app.stack, "GET", path) IN
         /\ r.status = 200
         /\ IF \E i \in 1..(Len(r.chain) - 1) : r.chain[i] = "recover"
            THEN /\ lastResp' = [r EXCEPT !.status = 500, !.body = InternalServerError]
                 /\ served' = served + 1
                 /\ UNCHANGED << pc, exit, exitMsg, listening >>
            ELSE /\ Die("panic", "panic in handler")
                 /\ listening' = FALSE
                 /\ UNCHANGED << served, lastResp >>
    /\ UNCHANGED << osEnv, env, dotenv, fs, contents, viper, cfg, envName,
                    requiredChecked, dotenvLoaded, loaded, validatedAs, validErr,
                    app, addr >>

Next ==
    \/ SetupProduction
    \/ SetupNonProduction
    \/ MainLoadConfig
    \/ MainValidate
    \/ NewApp
    \/ SetupMiddleware
    \/ SetupRoutes
    \/ MainListen
    \/ HandleRequest

Spec == Init /\ [][Next]_vars

\* The process of the configuration guide started as section 8.1 does, with
\* or without CONFIG_PATH, config files at any of the paths, and the
\* variables a start needs in place
InitPaths ==
    /\ osEnv \in { Setting(r) :
                     r \in [ APP_ENV : {None, "production"},
                             CONFIG_PATH : {None, "", "custom.yaml"},
                             JWT_SECRET : {"prod-secret"},
                             DATABASE_HOST : {"prod-db.example.com"},
                             DATABASE_PASSWORD : {"pw"} ] }
    /\ dotenv = [exists |-> TRUE, vars |-> Setting([APP_ENV |-> "development"])]
    /\ fs \in [Paths -> {"missing", "malformed", "ok"}]
    /\ contents = EmptyMap
    /\ pc = "start"
    /\ InitProcess

SpecPaths == InitPaths /\ [][Next]_vars

(***************************************************************************)
(* cmd/main.go as it is                                                    *)
(***************************************************************************)

\* The process of cmd/main.go, about to run main
InitCmd ==
    /\ osEnv \in OsEnvs
    /\ "DATABASE_PORT" \notin DOMAIN osEnv
    /\ "DATABASE_PASSWORD" \notin DOMAIN osEnv
    /\ dotenv \in DotenvFiles
    /\ ~dotenv.exists
    /\ fs = [p \in Paths |-> "missing"]
    /\ contents = EmptyMap
    /\ pc = "cmd_start"
    /\ InitProcess

\* app := fiber.New(fiber.Config{})
CmdNewApp ==
    /\ pc = "cmd_start"
    /\ app' = [NoApp EXCEPT !.created = TRUE]
    /\ pc' = "middleware"
    /\ UNCHANGED << osEnv, env, dotenv, fs, contents, viper, cfg, envName, exit,
                    exitMsg, requiredChecked, dotenvLoaded, loaded, validatedAs,
                    validErr, listening, addr, served, lastResp >>

\* app.Listen(":3000")
CmdListen ==
    /\ pc = "listen"
    /\ Listen([host |-> "", port |-> "3000"])

NextCmd ==
    \/ CmdNewApp
    \/ SetupMiddleware
    \/ SetupRoutes
    \/ CmdListen
    \/ HandleRequest

SpecCmd == InitCmd /\ [][NextCmd]_vars

\* cmd/main.go serving handlers that may panic.  Welcome and HealthCheck as
\* they are written do not; the recovery middleware is there for the
\* handlers that will.
NextPanic ==
    \/ CmdNewApp
    \/ SetupMiddleware
    \/ SetupRoutes
    \/ CmdListen
    \/ HandleRequest
    \/ HandleRequestPanic

SpecPanic == InitCmd /\ [][NextPanic]_vars

(***************************************************************************)
(* internal/config called again and again in one process, as its tests do  *)
(***************************************************************************)

\* The paths LoadConfig is called with: none, the default one, another one
LoadPaths == { "", "config.yaml", "custom.yaml" }

\* The variables TestLoadConfigWithEnvVars sets, and unsets when it is done
TestEnvVars ==
    "SERVER_PORT" :> "8080" @@
    "DATABASE_PORT" :> "5433"

\* The variables .env.example documents for the configuration (APP_ENV, which
\* it documents too, names the environment and is no configuration value)
DotenvExample ==
    { "SERVER_HOST", "SERVER_PORT", "SERVER_READ_TIMEOUT", "SERVER_WRITE_TIMEOUT",
      "SERVER_IDLE_TIMEOUT", "DATABASE_HOST", "DATABASE_PORT", "DATABASE_USER",
      "DATABASE_PASSWORD", "DATABASE_NAME", "DATABASE_SSLMODE", "JWT_SECRET",
      "JWT_EXPIRATION_TIME", "LOGGER_LEVEL", "LOGGER_FORMAT" }

\* os.Setenv(name, value)
Setenv(e, name, value) ==
    [n \in DOMAIN e \cup {name} |-> IF n = name THEN value ELSE e[n]]

\* os.Unsetenv(name)
Unsetenv(e, name) ==
    [n \in DOMAIN e \ {name} |-> e[n]]

\* The test process: no .env file, a config file at the default path and at
\* another one, each missing, malformed or well-formed
InitLoads ==
    /\ osEnv \in { Setting(r) :
                     r \in [ SERVER_PORT : {None, "8080"},
                             DATABASE_PORT : {None, "5433", "abc"},
                             JWT_SECRET : {None, "prod-secret"},
                             DATABASE_NAME : {None, "myapp"} ] }
    /\ dotenv = [exists |-> FALSE, vars |-> EmptyMap]
    /\ fs \in { f \in [Paths -> {"missing", "malformed", "ok"}] :
                   \A p \in Paths \ {"config.yaml", "custom.yaml"} : f[p] = "missing" }
    /\ contents \in IF \E p \in Paths : fs[p] = "ok" THEN FileContents ELSE {EmptyMap}
    /\ pc = "test"
    /\ InitProcess

\* cfg, err := LoadConfig(p)
CallLoadConfigAt(p) ==
    /\ pc = "test"
    /\ LET r == LoadConfig(p, env, fs, contents, viper) IN
         /\ viper' = r.viper
         /\ cfg' = r.cfg
         /\ loaded' = (r.err = "nil")
    /\ UNCHANGED << osEnv, env, dotenv, fs, contents, envName, pc, exit, exitMsg,
                    requiredChecked, dotenvLoaded, validatedAs, validErr, app,
                    listening, addr, served, lastResp >>

CallSetenv ==
    /\ pc = "test"
    /\ \E n \in DOMAIN TestEnvVars : env' = Setenv(env, n, TestEnvVars[n])
    /\ UNCHANGED << osEnv, dotenv, fs, contents, viper, cfg, envName, pc, exit,
                    exitMsg, requiredChecked, dotenvLoaded, loaded, validatedAs,
                    validErr, app, listening, addr, served, lastResp >>

CallUnsetenv ==
    /\ pc = "test"
    /\ \E n \in DOMAIN TestEnvVars : env' = Unsetenv(env, n)
    /\ UNCHANGED << osEnv, dotenv, fs, contents, viper, cfg, envName, pc, exit,
                    exitMsg, requiredChecked, dotenvLoaded, loaded, validatedAs,
                    validErr, app, listening, addr, served, lastResp >>

NextLoads ==
    \/ \E p \in LoadPaths : CallLoadConfigAt(p)
    \/ CallSetenv
    \/ CallUnsetenv

SpecLoads == InitLoads /\ [][NextLoads]_vars

(***************************************************************************)
(* Properties                                                              *)
(***************************************************************************)

\* The environment variable the naming rule gives each key: the dots turned
\* into underscores, upper-cased.
EnvVarOf ==
    "server.host" :> "SERVER_HOST" @@
    "server.port" :> "SERVER_PORT" @@
    "server.read_timeout" :> "SERVER_READ_TIMEOUT" @@
    "server.write_timeout" :> "SERVER_WRITE_TIMEOUT" @@
    "server.idle_timeout" :> "SERVER_IDLE_TIMEOUT" @@
    "database.host" :> "DATABASE_HOST" @@
    "database.port" :> "DATABASE_PORT" @@
    "database.user" :> "DATABASE_USER" @@
    "database.password" :> "DATABASE_PASSWORD" @@
    "database.dbname" :> "DATABASE_DBNAME" @@
    "database.sslmode" :> "DATABASE_SSLMODE" @@
    "jwt.secret" :> "JWT_SECRET" @@
    "jwt.expiration_time" :> "JWT_EXPIRATION_TIME" @@
    "logger.level" :> "LOGGER_LEVEL" @@
    "logger.format" :> "LOGGER_FORMAT"

\* The value of an environment variable, or of a scalar of the config
\* file, as the field of key k holds it
AsField(k, s) ==
    IF k \in IntKeys THEN ParseInt(s).val ELSE s

\* The environment does not override key k
NoEnvOverride(k) ==
    Getenv(env, EnvVarOf[k]) = ""

SecretError == "JWT_SECRET must be changed from default in production"

HostError == "production database should not use localhost"

LogLevelError == "debug logging not recommended in production"

\* C1: the listener is open, and requests are served, only after LoadConfig
\* has returned a configuration and ValidateConfig has accepted it; a
\* process whose loading or validation failed has no listener.
C1_ListenOnlyAfterValidation ==
    /\ listening => (loaded /\ validErr = "nil")
    /\ served > 0 => (loaded /\ validErr = "nil")
    /\ (exit # "running" /\ (~loaded \/ validErr # "nil")) => ~listening

\* C2 as stated: for every key, once the configuration is loaded, an
\* environment variable of the key that is set (to anything, the empty
\* string included) is the value of the key.
C2_EnvSetOverrides ==
    loaded =>
        \A k \in ConfigKeys :
            EnvVarOf[k] \in DOMAIN env => cfg[k] = AsField(k, env[EnvVarOf[k]])

\* C2 as amended: for every key, once the configuration is loaded, an
\* environment variable of the key that is set to a non-empty value is the
\* value of the key, whatever the default and the config file say.
C2_EnvNonEmptyOverrides ==
    loaded =>
        \A k \in ConfigKeys :
            ~NoEnvOverride(k) => cfg[k] = AsField(k, env[EnvVarOf[k]])

C2_Witness ==
    /\ loaded
    /\ Getenv(env, "JWT_SECRET") = "prod-secret"
    /\ "jwt.secret" \in DOMAIN contents
    /\ contents["jwt.secret"] # "prod-secret"
    /\ cfg["jwt.secret"] = "prod-secret"

\* The values TestLoadConfig expects of a load with nothing overridden
TestLoadConfig ==
    "server.host" :> "localhost" @@
    "server.port" :> "3000" @@
    "database.port" :> 5432 @@
    "database.user" :> "postgres" @@
    "database.dbname" :> "user_management" @@
    "logger.level" :> "info"

\* C3: every key that neither the config file nor the environment
\* overrides holds its fallback default in the loaded configuration.
C3_DefaultWhenNotOverridden ==
    loaded =>
        \A k \in ConfigKeys :
            (NoEnvOverride(k) /\ k \notin DOMAIN contents) =>
                /\ cfg[k] = setDefaults[k]
                /\ k \in DOMAIN TestLoadConfig => cfg[k] = TestLoadConfig[k]

C3_Witness ==
    /\ loaded
    /\ "JWT_SECRET" \notin DOMAIN env
    /\ "jwt.secret" \notin DOMAIN contents
    /\ cfg["jwt.secret"] = Placeholder
    /\ cfg["database.port"] = 5432

\* C4: with an existing config file, a key the file contains and the
\* environment does not set holds the file's value, and a key the file does
\* not contain (nor the environment sets) keeps its default.
C4_FileOverridesItsKeys ==
    (loaded /\ fs[viper.configFile] = "ok") =>
        \A k \in ConfigKeys :
            NoEnvOverride(k) =>
                cfg[k] = IF k \in DOMAIN contents THEN AsField(k, contents[k])
                         ELSE setDefaults[k]

C4_Witness ==
    /\ loaded
    /\ fs[viper.configFile] = "ok"
    /\ DOMAIN contents = {"jwt.secret"}
    /\ "JWT_SECRET" \notin DOMAIN env
    /\ cfg["jwt.secret"] = "config-secret"
    /\ cfg["logger.level"] = "info"

\* C5: validation under "production" of a configuration whose secret is the
\* placeholder fails with the secret's error, and the process ends there:
\* it never listens in production with the placeholder secret.
C5_PlaceholderSecretRejected ==
    /\ (validatedAs = "production" /\ cfg["jwt.secret"] = Placeholder) =>
          /\ validErr = SecretError
          /\ exit = "fatal"
          /\ exitMsg = SecretError
    /\ (envName = "production" /\ loaded /\ cfg["jwt.secret"] = Placeholder) =>
          /\ ~listening
          /\ pc \in {"validate", "exited"}

C5_Witness ==
    /\ validatedAs = "production"
    /\ cfg["jwt.secret"] = Placeholder
    /\ cfg["database.host"] = "prod-db.example.com"
    /\ exit = "fatal"

\* C6: validation under "production" of a configuration whose database host
\* is "localhost" fails with the database host's error (the secret, checked
\* first, being acceptable).
C6_LocalhostRejected ==
    (/\ validatedAs = "production"
     /\ cfg["database.host"] = "localhost"
     /\ cfg["jwt.secret"] # Placeholder) =>
        validErr = HostError

\* C7 as stated: validation under "production" of a configuration whose
\* log level is "debug" fails with the log level's error.
C7_DebugGivesLogLevelError ==
    (validatedAs = "production" /\ cfg["logger.level"] = "debug") =>
        validErr = LogLevelError

\* C7 as amended: validation under "production" of a configuration whose
\* log level is "debug" fails and the process ends without listening; the
\* error is the log level's unless the check of the secret or of the
\* database host, which come first, has failed.
C7_DebugRejected ==
    (validatedAs = "production" /\ cfg["logger.level"] = "debug") =>
        /\ validErr # "nil"
        /\ exit = "fatal"
        /\ ~listening
        /\ validErr = SecretError => cfg["jwt.secret"] = Placeholder
        /\ validErr \notin {SecretError, HostError} => validErr = LogLevelError

C7_Witness ==
    /\ validatedAs = "production"
    /\ cfg["logger.level"] = "debug"
    /\ validErr = LogLevelError
    /\ exit = "fatal"

C9_UnsetAppEnvFatal ==
    "APP_ENV" \notin DOMAIN osEnv =>
        /\ pc \in {"start", "exited"}
        /\ validatedAs = None
        /\ ~listening

\* C9 as amended: a process started without APP_ENV in its environment,
\* whose .env file does not set APP_ENV either, ends in the setup step with
\* a panic (that APP_ENV must be set, when the .env file was read; that the
\* .env file is required, when there is none); no environment name is
\* assumed, nothing is loaded or validated and no listener is opened.
C9_NoAppEnvAnywhereFatal ==
    ("APP_ENV" \notin DOMAIN osEnv /\ Getenv(dotenv.vars, "APP_ENV") = "") =>
        /\ pc \in {"start", "exited"}
        /\ pc = "exited" =>
             /\ exit = "panic"
             /\ exitMsg = IF dotenv.exists THEN "APP_ENV must be set in .env file"
                          ELSE "Non-production environment requires .env file"
        /\ envName = ""
        /\ ~loaded
        /\ validatedAs = None
        /\ ~listening

C9_Witness ==
    /\ "APP_ENV" \notin DOMAIN osEnv
    /\ dotenv.exists
    /\ "APP_ENV" \notin DOMAIN dotenv.vars
    /\ dotenvLoaded
    /\ exit = "panic"
    /\ exitMsg = "APP_ENV must be set in .env file"

\* C10: a run whose environment name is "production" has not loaded the
\* .env file: its environment is the one the operating system gave it.
C10_ProductionNeverLoadsDotenv ==
    envName = "production" =>
        /\ ~dotenvLoaded
        /\ env = osEnv

\* LoadConfig has been called: it is the one to turn AutomaticEnv on
LoadCalled ==
    viper.automaticEnv

\* The configuration the defaults give when overlaid with the environment
DefaultsWithEnv ==
    [k \in ConfigKeys |->
        IF NoEnvOverride(k) THEN setDefaults[k] ELSE AsField(k, env[EnvVarOf[k]])]

\* C11: a load whose config path names no existing file (the environment's
\* values all being convertible) succeeds: it reports no error and returns
\* the defaults overlaid with the environment variables.
C11_MissingFileLoads ==
    (/\ LoadCalled
     /\ fs[viper.configFile] = "missing"
     /\ Unmarshal(env, viper).err = "nil") =>
        /\ loaded
        /\ exitMsg # "error reading config file"
        /\ cfg = DefaultsWithEnv

\* C12: a load of a config file that exists and is malformed fails with the
\* error of reading the file, its cause being the parse error, whatever the
\* environment name is: no configuration is returned (none built from the
\* defaults either), nothing is validated and the process ends without a
\* listener.
C12_MalformedFileFails ==
    (LoadCalled /\ fs[viper.configFile] = "malformed") =>
        /\ ReadInConfig(viper, fs, contents).err = "ConfigParseError"
        /\ ~loaded
        /\ cfg = ZeroConfig
        /\ exit = "fatal"
        /\ exitMsg = "error reading config file"
        /\ validatedAs = None
        /\ ~listening

C12_Witness ==
    /\ LoadCalled
    /\ fs[viper.configFile] = "malformed"
    /\ envName = "production"
    /\ exit = "fatal"
    /\ exitMsg = "error reading config file"

\* C13: every call of LoadConfig returns what a call with the same path,
\* the same environment and the same files returns in a process that has
\* loaded nothing before: the same error or none, and the same
\* configuration.
C13_Deterministic ==
    [][\A p \in LoadPaths :
         CallLoadConfigAt(p) =>
            LET r == LoadConfig(p, env, fs, contents, NewViper) IN
            /\ loaded' = (r.err = "nil")
            /\ cfg' = r.cfg]_vars

\* C14: the step of main that resolves the configuration changes nothing
\* but what it returns: the process environment, the files and viper's
\* package-level registry are after it what they were before it.
C14_LoadChangesNothingElse ==
    [][MainLoadConfig =>
         UNCHANGED << osEnv, env, dotenv, fs, contents, viper >>]_vars

\* The value of int key k that takes part in the load, when the environment
\* or the file read supplies one, is not a number
NotConvertible(k) ==
    IF ~NoEnvOverride(k)
    THEN ~ParseInt(env[EnvVarOf[k]]).ok
    ELSE /\ fs[viper.configFile] = "ok"
         /\ k \in DOMAIN contents
         /\ ~ParseInt(contents[k]).ok

\* C15 as stated, for a config file that exists: a load in which the value
\* supplied for an int key is not a number fails with the error of
\* unmarshaling.
C15_ConversionErrorReported ==
    (/\ LoadCalled
     /\ fs[viper.configFile] # "missing"
     /\ \E k \in IntKeys : NotConvertible(k)) =>
        /\ ~loaded
        /\ exitMsg = "error unmarshaling config"

\* C15 as amended: a load in which the value that the environment variable
\* of an int key supplies, or, the variable being unset, the value the
\* config file supplies for the key, is not a number fails: no
\* configuration is returned, nothing is validated and the process ends
\* without a listener.  The error is the one of unmarshaling when the
\* config file was read; a file that cannot be read fails the load before
\* any value is converted.
C15_ConversionFailureFails ==
    (LoadCalled /\ \E k \in IntKeys : NotConvertible(k)) =>
        /\ ~loaded
        /\ cfg = ZeroConfig
        /\ exit = "fatal"
        /\ validatedAs = None
        /\ ~listening
        /\ fs[viper.configFile] = "ok" => exitMsg = "error unmarshaling config"
        /\ fs[viper.configFile] # "ok" => exitMsg = "error reading config file"

\* The port comes from the file and is no number
C15_Witness ==
    /\ LoadCalled
    /\ fs[viper.configFile] = "ok"
    /\ "DATABASE_PORT" \notin DOMAIN env
    /\ "database.port" \in DOMAIN contents
    /\ contents["database.port"] = "abc"
    /\ exit = "fatal"
    /\ exitMsg = "error unmarshaling config"

\* The environment of the scenario: production, the port and a secret of
\* its own
ScenarioEnv ==
    "APP_ENV" :> "production" @@
    "SERVER_PORT" :> "8080" @@
    "JWT_SECRET" :> "prod-secret"

\* The process ended, if it did, because the listener could not be opened
StartupSucceeds ==
    exit # "running" => (exit = "fatal" /\ exitMsg = "Server failed to start")

C17_ProductionRequiresVariables ==
    (/\ Getenv(osEnv, "APP_ENV") = "production"
     /\ \E n \in {"DATABASE_HOST", "DATABASE_PASSWORD", "JWT_SECRET"} :
            n \notin DOMAIN osEnv \/ osEnv[n] = "") =>
        /\ pc \in {"start", "exited"}
        /\ pc = "exited" =>
             /\ exit = "panic"
             /\ exitMsg = "Production requires variable to be set as OS environment variable"
        /\ ~dotenvLoaded
        /\ ~LoadCalled
        /\ ~loaded
        /\ validatedAs = None
        /\ app = NoApp
        /\ ~listening

\* The secret is set and empty, the two other variables are set
C17_Witness ==
    /\ Getenv(osEnv, "APP_ENV") = "production"
    /\ "JWT_SECRET" \in DOMAIN osEnv
    /\ osEnv["JWT_SECRET"] = ""
    /\ Getenv(osEnv, "DATABASE_HOST") = "prod-db.example.com"
    /\ Getenv(osEnv, "DATABASE_PASSWORD") = "pw"
    /\ requiredChecked
    /\ exit = "panic"
    /\ ~LoadCalled

C20_EndpointsAlwaysAnswer ==
    /\ served > 0 => (listening /\ lastResp.method = "GET")
    /\ (lastResp.method = "GET" /\ lastResp.path = "/") =>
          /\ lastResp.status = 200
          /\ lastResp.body = ("message" :> "Welcome to User Management API" @@
                              "version" :> "1.0.0")
          /\ lastResp.chain = << "recover", "logger", "Welcome" >>
    /\ (lastResp.method = "GET" /\ lastResp.path = "/api/v1/health") =>
          /\ lastResp.status = 200
          /\ lastResp.body = ("status" :> "healthy")
          /\ lastResp.chain = << "recover", "logger", "HealthCheck" >>

\* The last of the requests of the run is the health check
C20_Witness ==
    /\ listening
    /\ served = MaxRequests
    /\ lastResp.path = "/api/v1/health"
    /\ lastResp.status = 200
    /\ lastResp.body = ("status" :> "healthy")

\* C21: whenever ValidateConfig has been called with the environment name
\* "production", setupProductionEnvironment has checked DATABASE_HOST,
\* DATABASE_PASSWORD and JWT_SECRET earlier in the run.
C21_RequiredCheckedBeforeProductionValidation ==
    validatedAs = "production" => requiredChecked

C23_DocumentedVariablesOverride ==
    [][\A p \in LoadPaths :
         (CallLoadConfigAt(p) /\ loaded') =>
            \A n \in DotenvExample :
                (n \in DOMAIN env /\ env[n] # "") =>
                    \E k \in ConfigKeys :
                        /\ EnvKeyOf[k] = Spell[n]
                        /\ cfg'[k] = AsField(k, env[n])]_vars

\* C24: in a validation under "production" that gets as far as the check
\* of the database host (the secret is not the placeholder), the host's
\* error is returned exactly when the host contains "localhost".
C24_HostRejectedIffContainsLocalhost ==
    (validatedAs = "production" /\ cfg["jwt.secret"] # Placeholder) =>
        (validErr = HostError
            <=> Contains(Spell[cfg["database.host"]], Spell["localhost"]))

\* C25: validation under "production" returns one error, the first in the
\* order secret, database host, log level: with the placeholder secret it
\* is the secret's error whatever the host and the log level are; the
\* host's error is returned only with a secret that passed, and for a host
\* that is refused it is returned whatever the log level is; the log
\* level's error is returned only when the secret passed and the host's
\* error was not due.
C25_FirstFailureInOrder ==
    validatedAs = "production" =>
        /\ validErr \in {"nil", SecretError, HostError, LogLevelError}
        /\ cfg["jwt.secret"] = Placeholder => validErr = SecretError
        /\ validErr = HostError => cfg["jwt.secret"] # Placeholder
        /\ (/\ cfg["jwt.secret"] # Placeholder
            /\ cfg["database.host"] = "db.localhost") => validErr = HostError
        /\ validErr = LogLevelError =>
             /\ cfg["jwt.secret"] # Placeholder
             /\ cfg["database.host"] # "db.localhost"
             /\ cfg["logger.level"] = "debug"
        /\ validErr # "nil" => (exit = "fatal" /\ exitMsg = validErr)

\* All three checks would fail, and the secret's error is the one reported
C25_Witness ==
    /\ validatedAs = "production"
    /\ cfg["jwt.secret"] = Placeholder
    /\ cfg["database.host"] = "db.localhost"
    /\ cfg["logger.level"] = "debug"
    /\ validErr = SecretError
    /\ exitMsg = SecretError

FileOrDefault(k) ==
    IF k \in DOMAIN contents THEN AsField(k, contents[k]) ELSE setDefaults[k]

Exists(p) ==
    fs[p] # "missing"

\* C28: the path main gives to LoadConfig is the value of CONFIG_PATH when
\* that is not empty, whether the file is there or not; otherwise the first
\* of config.yaml, config.yml, configs/config.yaml and configs/config.yml
\* that exists; otherwise config.yaml.
C28_ConfigPathChosen ==
    LoadCalled =>
        viper.configFile =
            IF "CONFIG_PATH" \in DOMAIN env /\ env["CONFIG_PATH"] # ""
            THEN env["CONFIG_PATH"]
            ELSE IF Exists("config.yaml") THEN "config.yaml"
            ELSE IF Exists("config.yml") THEN "config.yml"
            ELSE IF Exists("configs/config.yaml") THEN "configs/config.yaml"
            ELSE IF Exists("configs/config.yml") THEN "configs/config.yml"
            ELSE "config.yaml"

\* CONFIG_PATH names a file that is not there while config.yaml is: the
\* load is of the file named, and fails
C28_Witness ==
    /\ LoadCalled
    /\ Getenv(env, "CONFIG_PATH") = "custom.yaml"
    /\ ~Exists("custom.yaml")
    /\ fs["config.yaml"] = "ok"
    /\ viper.configFile = "custom.yaml"
    /\ exitMsg = "error reading config file"

\* Handler h is registered before handler g in the stack
Before(stack, h, g) ==
    \E i, j \in 1..Len(stack) : i < j /\ stack[i].name = h /\ stack[j].name = g

\* C29: in the handler stack every middleware is registered before every
\* route, and recovery before the logger; every request to a registered
\* route, answered by its handler or ended by its handler's panic, went
\* through recovery first and the logger second; a handler's panic is
\* answered 500 and leaves the process running and listening, with the
\* next request, while the run has one, taken like any other.
C29_RecoveryFirstAndPanicsCaught ==
    /\ \A i, j \in 1..Len(app.stack) :
          (i < j /\ app.stack[i].kind = "route") => app.stack[j].kind = "route"
    /\ (\E i \in 1..Len(app.stack) : app.stack[i].name = "logger") =>
          Before(app.stack, "recover", "logger")
    /\ (\E i \in 1..Len(app.stack) : app.stack[i].kind = "route") =>
          (app.stack[1].name = "recover" /\ app.stack[2].name = "logger")
    /\ lastResp.status \in {200, 500} =>
          /\ Len(lastResp.chain) = 3
          /\ lastResp.chain[1] = "recover"
          /\ lastResp.chain[2] = "logger"
    /\ served > 0 =>
          /\ exit = "running"
          /\ pc = "serving"
          /\ listening
    /\ (lastResp.status = 500 /\ served < MaxRequests) =>
          (ENABLED HandleRequest /\ ENABLED HandleRequestPanic)

\* The health check's handler has panicked, as the last request of the run,
\* and the server is still listening
C29_Witness ==
    /\ lastResp.status = 500
    /\ lastResp.path = "/api/v1/health"
    /\ lastResp.chain = << "recover", "logger", "HealthCheck" >>
    /\ served = MaxRequests
    /\ listening
    /\ exit = "running"

\* C30: the address of the open listener is the host and the port of the
\* resolved configuration, and a process started with SERVER_PORT=8080
\* listens on port 8080.
C30_ListensOnConfiguredAddress ==
    listening =>
        /\ loaded => addr = [host |-> cfg["server.host"], port |-> cfg["server.port"]]
        /\ Getenv(osEnv, "SERVER_PORT") = "8080" => addr.port = "8080"

====
